---------------------------- MODULE Spec2Model ----------------------------
(***************************************************************************)
(* A model of the game-state engine of 4D-Tetris (src/tetris.c): the       *)
(* board, the active piece, the collision check, rotation, the tick-move,  *)
(* lock, the line-clear pass, the quadrant gravity sweeps, scoring and     *)
(* the fall period, spawn and the session reset.                           *)
(***************************************************************************)
EXTENDS Integers, Sequences, FiniteSets, TLC

VARIABLES
    board,            \* board.cells[y][x], 0 = BLACK (empty), 1..7 = colour tag
    currentPiece,     \* [x, y, type, rotation, direction]
    gameOver,         \* terminal flag
    score,
    speed,            \* fall period, timer-period units
    randState,        \* <<high 16 bits, low 16 bits>> of the unsigned 32-bit state
    lastButtonState,  \* handle_input's edge detector
    lastSwitchState,  \* handle_switch_changes' last reading
    pc,               \* where the program is: spawn, loop, switches, timer, lock,
                      \* check_lines, gravity, score, over; in a harness: check,
                      \* done, rotate, pass
    linesCleared,     \* check_lines locals
    lastClearedRow,
    lastClearedCol,
    changes,          \* apply_gravity local: moves of the last sweep
    ret,              \* value returned by the last harness call of check_collision
    nTicks,           \* tick-moves made so far (ghost, bounds the model)
    nInputs,          \* button/switch changes so far (ghost, bounds the model)
    timeoutcount,     \* timer expiries counted since the last tick-move
    entry,            \* the piece at the entry of a harness run (ghost)
    nLoops,           \* main-loop iterations started so far (ghost, bounds the model)
    timerStatus,      \* bit 0 of *TIMER_STATUS: the timer has expired, not yet cleared
    irq,              \* the timer's interrupt request is pending
    nExpired          \* timer expirations since the last tick-move or reset (ghost)

gameVars  == <<board, currentPiece, gameOver, score, speed, randState>>
ioVars    == <<lastButtonState, lastSwitchState>>
localVars == <<linesCleared, lastClearedRow, lastClearedCol, changes>>
timerVars == <<timerStatus, irq, nExpired>>
auxVars   == <<timeoutcount, entry, nLoops, timerVars>>
vars == <<board, currentPiece, gameOver, score, speed, randState,
          lastButtonState, lastSwitchState, pc,
          linesCleared, lastClearedRow, lastClearedCol, changes, ret,
          nTicks, nInputs, timeoutcount, entry, nLoops,
          timerStatus, irq, nExpired>>

----------------------------------------------------------------------------
(* Program constants *)

BOARD_WIDTH == 20
BOARD_HEIGHT == 20
BLACK == 0
SCORE_SINGLE == 100
SCORE_DOUBLE == 300
SCORE_TRIPLE == 500
SCORE_TETRIS == 800
DIR_DOWN == 0
DIR_UP == 1
DIR_LEFT == 2
DIR_RIGHT == 3
SWITCH_LEFT == 2
SWITCH_RIGHT == 1
SWITCH_DOWN == 4
SWITCH_UP == 8
startSpeed == 899999
SpeedThreshold == 1000
SpeedFactor == 400
TicksPerMove == 20
SpawnX == (BOARD_WIDTH \div 2) - 2
SpawnY == (BOARD_HEIGHT \div 2) - 2
centerX == BOARD_WIDTH \div 2
centerY == BOARD_HEIGHT \div 2

\* the table with the bar of the I piece in the top row of its box (0xF000)
TETROMINOS_IOnTop ==
    << <<61440, 8738, 61440, 8738>>,
       <<36352, 25664, 3616, 17600>>,
       <<11776, 17504, 3712, 50240>>,
       <<26112, 26112, 26112, 26112>>,
       <<27648, 17952, 27648, 17952>>,
       <<19968, 17984, 3648, 19520>>,
       <<50688, 9792, 50688, 9792>> >>

TETROMINOS ==
    << <<3840, 8738, 3840, 8738>>,        \* I  0x0F00 0x2222 0x0F00 0x2222
       <<36352, 25664, 3616, 17600>>,     \* J  0x8E00 0x6440 0x0E20 0x44C0
       <<11776, 17504, 3712, 50240>>,     \* L  0x2E00 0x4460 0x0E80 0xC440
       <<26112, 26112, 26112, 26112>>,    \* O  0x6600
       <<27648, 17952, 27648, 17952>>,    \* S  0x6C00 0x4620
       <<19968, 17984, 3648, 19520>>,     \* T  0x4E00 0x4640 0x0E40 0x4C40
       <<50688, 9792, 50688, 9792>> >>    \* Z  0xC600 0x2640

(* Bounds of the model *)
MaxSeed == 1          \* the session seed read from the timer is in 0..MaxSeed
MaxTicks == 3         \* tick-moves per run
MaxInputs == 1        \* button or switch changes per run
MaxSwitch == 15       \* switch readings are in 0..MaxSwitch
MaxMargin == 1        \* collision harness: placements up to this far off the shape box
MaxCells == 2         \* gravity harness: occupied cells on the board
MaxRotations == 4     \* rotation harness: calls of rotate_piece per run
MaxPasses == 4        \* score harness: line-clear passes per session
MaxLines == 4         \* score harness: a pass clears 0..MaxLines lines
MaxLoops == 3         \* main loop: iterations per run
MaxLead == 2          \* main loop: a run starts at most this far before a tick-move
MaxDraw == 24         \* spawn harness: low half of the random state
MaxFall == 21         \* tick-moves of an input-free or rotation-only run
MaxPresses == 5       \* main-loop iterations of a run that only polls the button

Rows == 0 .. (BOARD_HEIGHT - 1)
Cols == 0 .. (BOARD_WIDTH - 1)
SwitchValues == 0 .. MaxSwitch

----------------------------------------------------------------------------
(* Shapes and the collision check *)

\* TETROMINOS[p->type][p->rotation], the C arrays being 0-based
Shape(p) == TETROMINOS[p.type + 1][p.rotation + 1]

\* (shape >> (15 - (y * 4 + x))) & 1
ShapeBit(shape, y, x) == (shape \div (2 ^ (15 - (y * 4 + x)))) % 2

\* the nested y, x loops of check_collision from cell i = y * 4 + x on,
\* returning at the first offending cell
RECURSIVE CollisionFrom(_, _, _)
CollisionFrom(b, p, i) ==
    IF i > 15 THEN 0
    ELSE LET y == i \div 4
             x == i % 4
             boardX == p.x + x
             boardY == p.y + y
         IN  IF /\ ShapeBit(Shape(p), y, x) = 1
                /\ ( \/ boardX < 0
                     \/ boardX >= BOARD_WIDTH
                     \/ boardY < 0
                     \/ boardY >= BOARD_HEIGHT
                     \/ b[boardY][boardX] # BLACK )
             THEN 1
             ELSE CollisionFrom(b, p, i + 1)

\* a check whose y loop stops one shape row early
check_collision_ThreeRows(b, p) ==
    IF \E y \in 0..2, x \in 0..3 :
           /\ ShapeBit(Shape(p), y, x) = 1
           /\ ( \/ p.x + x < 0
                \/ p.x + x >= BOARD_WIDTH
                \/ p.y + y < 0
                \/ p.y + y >= BOARD_HEIGHT
                \/ b[p.y + y][p.x + x] # BLACK )
    THEN 1 ELSE 0

check_collision(b, p) == CollisionFrom(b, p, 0)

EmptyBoard == [y \in Rows |-> [x \in Cols |-> BLACK]]

\* init_board: every cell BLACK
init_board == EmptyBoard

----------------------------------------------------------------------------
(* The random source *)

\* randState * 1103515245 + 12345 on 32 unsigned bits, in 16-bit halves:
\* 1103515245 = 16838 * 65536 + 20077
LcgNext(s) ==
    LET hi == s[1]
        lo == s[2]
        t  == lo * 20077 + 12345
    IN  << ((t \div 65536) + ((hi * 20077) % 65536) + ((lo * 16838) % 65536)) % 65536,
           t % 65536 >>

\* (randState >> 16) & 0x7fff of the updated state
RandOut(s) == s[1] % 32768

\* a spawn whose direction draw is taken modulo 5
SpawnedPiece_DirModFive(s) ==
    LET s1 == LcgNext(s)
        s2 == LcgNext(s1)
    IN  [ type |-> RandOut(s1) % 7,
          rotation |-> 0,
          x |-> SpawnX,
          y |-> SpawnY,
          direction |-> RandOut(s2) % 5 ]

\* spawn_piece: two draws, the piece at the centre, rotation 0
SpawnedPiece(s) ==
    LET s1 == LcgNext(s)
        s2 == LcgNext(s1)
    IN  [ type |-> RandOut(s1) % 7,
          rotation |-> 0,
          x |-> SpawnX,
          y |-> SpawnY,
          direction |-> RandOut(s2) % 4 ]

SpawnedState(s) == LcgNext(LcgNext(s))

----------------------------------------------------------------------------
(* Lock, rotation, tick-move *)

\* a lock that writes the kind itself as the tag
lock_piece_TagKind(b, p) ==
    [y \in Rows |-> [x \in Cols |->
        IF /\ y - p.y \in 0..3
           /\ x - p.x \in 0..3
           /\ ShapeBit(Shape(p), y - p.y, x - p.x) = 1
        THEN p.type
        ELSE b[y][x]]]

\* lock_piece: the cells of the shape get the tag type + 1
lock_piece(b, p) ==
    [y \in Rows |-> [x \in Cols |->
        IF /\ y - p.y \in 0..3
           /\ x - p.x \in 0..3
           /\ ShapeBit(Shape(p), y - p.y, x - p.x) = 1
        THEN p.type + 1
        ELSE b[y][x]]]

\* a rotation that is never reverted
rotate_piece_NoRevert(b, p) == [p EXCEPT !.rotation = (p.rotation + 1) % 4]

\* a rotation that wraps one state early
rotate_piece_ModThree(b, p) ==
    LET q == [p EXCEPT !.rotation = (p.rotation + 1) % 3]
    IN  IF check_collision(b, q) = 1 THEN p ELSE q

\* a rotation that tries one cell to the right before it gives up
rotate_piece_WallKick(b, p) ==
    LET q == [p EXCEPT !.rotation = (p.rotation + 1) % 4]
        k == [q EXCEPT !.x = p.x + 1]
    IN  IF check_collision(b, q) = 0 THEN q
        ELSE IF check_collision(b, k) = 0 THEN k ELSE p

\* rotate_piece: try rotation + 1 mod 4, revert on collision
rotate_piece(b, p) ==
    LET q == [p EXCEPT !.rotation = (p.rotation + 1) % 4]
    IN  IF check_collision(b, q) = 1 THEN p ELSE q

\* a first switch that has no case for any direction
MovedPiece_Still(p) == p

\* the first switch of handle_tick_movement
MovedPiece(p) ==
    CASE p.direction = DIR_DOWN  -> [p EXCEPT !.y = p.y + 1]
      [] p.direction = DIR_UP    -> [p EXCEPT !.y = p.y - 1]
      [] p.direction = DIR_LEFT  -> [p EXCEPT !.x = p.x - 1]
      [] p.direction = DIR_RIGHT -> [p EXCEPT !.x = p.x + 1]
      [] OTHER -> p

\* an undo whose DIR_LEFT case repeats the move
UndoMove_LeftAgain(p) ==
    CASE p.direction = DIR_DOWN  -> [p EXCEPT !.y = p.y - 1]
      [] p.direction = DIR_UP    -> [p EXCEPT !.y = p.y + 1]
      [] p.direction = DIR_LEFT  -> [p EXCEPT !.x = p.x - 1]
      [] p.direction = DIR_RIGHT -> [p EXCEPT !.x = p.x - 1]
      [] OTHER -> p

\* an undo without the DIR_DOWN case
UndoMove_NoDown(p) ==
    CASE p.direction = DIR_UP    -> [p EXCEPT !.y = p.y + 1]
      [] p.direction = DIR_LEFT  -> [p EXCEPT !.x = p.x + 1]
      [] p.direction = DIR_RIGHT -> [p EXCEPT !.x = p.x - 1]
      [] OTHER -> p

\* the undo switch of handle_tick_movement
UndoMove(p) ==
    CASE p.direction = DIR_DOWN  -> [p EXCEPT !.y = p.y - 1]
      [] p.direction = DIR_UP    -> [p EXCEPT !.y = p.y + 1]
      [] p.direction = DIR_LEFT  -> [p EXCEPT !.x = p.x + 1]
      [] p.direction = DIR_RIGHT -> [p EXCEPT !.x = p.x - 1]
      [] OTHER -> p

----------------------------------------------------------------------------
(* The line-clear pass *)

\* the inner loop of the row scan: no BLACK cell in row y
RowComplete(b, y) == \A x \in Cols : b[y][x] # BLACK

\* the inner loop of the column scan: no BLACK cell in column x
ColComplete(b, x) == \A y \in Rows : b[y][x] # BLACK

\* a clear that paints the row in the border colour 0xBBB, cut to a char
ClearRow_White(b, y) == [b EXCEPT ![y] = [x \in Cols |-> 3003 % 256]]

ClearRow(b, y) == [b EXCEPT ![y] = [x \in Cols |-> BLACK]]

ClearCol(b, x) == [y \in Rows |-> [b[y] EXCEPT ![x] = BLACK]]

\* a row loop that keeps the first cleared row instead of the last
ScanRowOf_FirstIndex(s, y) ==
    IF RowComplete(s.b, y)
    THEN [b |-> ClearRow(s.b, y), n |-> s.n + 1,
          last |-> IF s.last = -1 THEN y ELSE s.last]
    ELSE s

\* one iteration of the row loop of check_lines, on the value s = [b, n, last]
ScanRowOf(s, y) ==
    IF RowComplete(s.b, y)
    THEN [b |-> ClearRow(s.b, y), n |-> s.n + 1, last |-> y]
    ELSE s

\* one iteration of the column loop of check_lines
ScanColOf(s, x) ==
    IF ColComplete(s.b, x)
    THEN [b |-> ClearCol(s.b, x), n |-> s.n + 1, last |-> x]
    ELSE s

\* the row loop of check_lines from row y on; the state st is evaluated once
RECURSIVE ScanRows(_, _)
ScanRows(st, y) ==
    IF y >= BOARD_HEIGHT THEN st
    ELSE ScanRows(CHOOSE r \in {ScanRowOf(s, y) : s \in {st}} : TRUE, y + 1)

\* the column loop of check_lines from column x on, on the board the row loop left
RECURSIVE ScanCols(_, _)
ScanCols(st, x) ==
    IF x >= BOARD_WIDTH THEN st
    ELSE ScanCols(CHOOSE r \in {ScanColOf(s, x) : s \in {st}} : TRUE, x + 1)

\* both scans: [b, n, row, col]
ScanLines(b) ==
    LET r == ScanRows([b |-> b, n |-> 0, last |-> -1], 0)
        c == ScanCols([b |-> r.b, n |-> r.n, last |-> -1], 0)
    IN  [b |-> c.b, n |-> c.n, row |-> r.last, col |-> c.last]

\* a score switch whose case 3 adds the points of case 2
ScoreFor_TripleAsDouble(n) ==
    CASE n = 1 -> SCORE_SINGLE
      [] n = 2 -> SCORE_DOUBLE
      [] n = 3 -> SCORE_DOUBLE
      [] n = 4 -> SCORE_TETRIS
      [] OTHER -> 0

\* a switch that awards half of SCORE_SINGLE for every line
ScoreFor_HalfPerLine(n) == n * (SCORE_SINGLE \div 2)

\* the switch on linesCleared: the points added
ScoreFor(n) ==
    CASE n = 1 -> SCORE_SINGLE
      [] n = 2 -> SCORE_DOUBLE
      [] n = 3 -> SCORE_TRIPLE
      [] n = 4 -> SCORE_TETRIS
      [] OTHER -> 0

\* a speed update without the threshold test
SpeedAfter_NoGuard(sp, sc, n) ==
    IF n \in 1..4 THEN sp - sc * SpeedFactor * n ELSE sp

\* a speed update that uses the score as it was before the pass
SpeedAfter_OldScore(sp, sc, n) ==
    IF n \in 1..4 /\ sp > SpeedThreshold
    THEN sp - (sc - ScoreFor(n)) * SpeedFactor * n
    ELSE sp

\* the switch on linesCleared: the new fall period, given the new score
SpeedAfter(sp, sc, n) ==
    IF n \in 1..4 /\ sp > SpeedThreshold
    THEN sp - sc * SpeedFactor * n
    ELSE sp

----------------------------------------------------------------------------
(* The gravity sweeps *)

\* a row sweep that copies a cell to its neighbour and leaves the source as it was
RowStepOf_NoClear(s, y, dy) ==
    LET moved == {x \in Cols : s.b[y][x] # BLACK /\ s.b[y + dy][x] = BLACK}
    IN  IF moved = {} THEN s
        ELSE [b |-> [s.b EXCEPT
                  ![y + dy] = [x \in Cols |-> IF x \in moved THEN s.b[y][x] ELSE @[x]]],
              n |-> s.n + Cardinality(moved)]

\* the inner x loop of a row sweep at row y, on the value s = [b, n]: every
\* occupied cell of the row with an empty neighbour at row y + dy moves there
\* (the visits of one row touch disjoint cells)
RowStepOf(s, y, dy) ==
    LET moved == {x \in Cols : s.b[y][x] # BLACK /\ s.b[y + dy][x] = BLACK}
    IN  IF moved = {} THEN s
        ELSE [b |-> [s.b EXCEPT
                  ![y + dy] = [x \in Cols |-> IF x \in moved THEN s.b[y][x] ELSE @[x]],
                  ![y] = [x \in Cols |-> IF x \in moved THEN BLACK ELSE @[x]]],
              n |-> s.n + Cardinality(moved)]

\* one iteration of the y loop of a row sweep; the state st is evaluated once
RowStep(st, y, dy) == CHOOSE r \in {RowStepOf(s, y, dy) : s \in {st}} : TRUE

\* a column sweep that moves a cell without testing that its neighbour is empty
ColStepOf_Overwrite(s, x, dx, ys) ==
    LET moved == {y \in ys : s.b[y][x] # BLACK}
    IN  IF moved = {} THEN s
        ELSE [b |-> [y \in Rows |->
                  IF y \in moved
                  THEN [s.b[y] EXCEPT ![x + dx] = s.b[y][x], ![x] = BLACK]
                  ELSE s.b[y]],
              n |-> s.n + Cardinality(moved)]

\* the inner y loop of a column sweep at column x, for y in ys: every occupied
\* cell with an empty neighbour at column x + dx moves there
ColStepOf(s, x, dx, ys) ==
    LET moved == {y \in ys : s.b[y][x] # BLACK /\ s.b[y][x + dx] = BLACK}
    IN  IF moved = {} THEN s
        ELSE [b |-> [y \in Rows |->
                  IF y \in moved
                  THEN [s.b[y] EXCEPT ![x + dx] = s.b[y][x], ![x] = BLACK]
                  ELSE s.b[y]],
              n |-> s.n + Cardinality(moved)]

\* one iteration of the x loop of a column sweep; the state st is evaluated once
ColStep(st, x, dx, ys) == CHOOSE r \in {ColStepOf(s, x, dx, ys) : s \in {st}} : TRUE

\* an upward fall whose loop runs over the whole board
RECURSIVE FallUp_WholeBoard(_, _)
FallUp_WholeBoard(st, y) ==
    IF y >= BOARD_HEIGHT THEN st ELSE FallUp_WholeBoard(RowStep(st, y, -1), y + 1)

\* for (y = 1; y < centerY; y++): fall upward
RECURSIVE FallUp(_, _)
FallUp(st, y) ==
    IF y >= centerY THEN st ELSE FallUp(RowStep(st, y, -1), y + 1)

\* for (y = BOARD_HEIGHT - 2; y >= centerY; y--): fall downward
RECURSIVE FallDown(_, _)
FallDown(st, y) ==
    IF y < centerY THEN st ELSE FallDown(RowStep(st, y, 1), y - 1)

\* for (x = BOARD_WIDTH - 2; x >= centerX; x--), y in ys: fall right
RECURSIVE FallRight(_, _, _)
FallRight(st, x, ys) ==
    IF x < centerX THEN st ELSE FallRight(ColStep(st, x, 1, ys), x - 1, ys)

\* for (x = 1; x < centerX; x++), y in ys: fall left
RECURSIVE FallLeft(_, _, _)
FallLeft(st, x, ys) ==
    IF x >= centerX THEN st ELSE FallLeft(ColStep(st, x, -1, ys), x + 1, ys)

TopRows == 0 .. (centerY - 1)
BottomRows == centerY .. (BOARD_HEIGHT - 1)

\* a row part whose downward loop starts one row early
RowGravity_ShortDown(st, clearedRow) ==
    IF clearedRow # -1
    THEN IF clearedRow < centerY
         THEN FallUp(st, 1)
         ELSE FallDown(st, BOARD_HEIGHT - 3)
    ELSE st

\* the row part of one do-while iteration of apply_gravity
RowGravity(st, clearedRow) ==
    IF clearedRow # -1
    THEN IF clearedRow < centerY
         THEN FallUp(st, 1)
         ELSE FallDown(st, BOARD_HEIGHT - 2)
    ELSE st

\* the column part: the top quadrant, then the bottom quadrant
ColGravity(st, clearedCol) ==
    IF clearedCol # -1
    THEN LET top == IF clearedCol >= centerX
                    THEN FallRight(st, BOARD_WIDTH - 2, TopRows)
                    ELSE FallLeft(st, 1, TopRows)
         IN  IF clearedCol >= centerX
             THEN FallRight(top, BOARD_WIDTH - 2, BottomRows)
             ELSE FallLeft(top, 1, BottomRows)
    ELSE st

\* one do-while iteration of apply_gravity: [b, n], n the value of changes
GravitySweepOf(b, clearedRow, clearedCol) ==
    ColGravity(RowGravity([b |-> b, n |-> 0], clearedRow), clearedCol)

----------------------------------------------------------------------------
(* Input decoding *)

\* v & mask # 0 for a one-bit mask
BitSet(v, mask) == (v \div mask) % 2 = 1

\* (currentSwitches ^ lastSwitchState) & mask # 0
SwitchChanged(cur, last, mask) == BitSet(cur, mask) # BitSet(last, mask)

\* handle_switch_changes: the direction after reading cur
SwitchDirection(dir, cur, last) ==
    IF cur # last
    THEN CASE SwitchChanged(cur, last, SWITCH_RIGHT) -> DIR_RIGHT
           [] SwitchChanged(cur, last, SWITCH_LEFT)  -> DIR_LEFT
           [] SwitchChanged(cur, last, SWITCH_UP)    -> DIR_UP
           [] SwitchChanged(cur, last, SWITCH_DOWN)  -> DIR_DOWN
           [] OTHER -> dir
    ELSE dir

----------------------------------------------------------------------------
(* Actions *)

\* handle_input with the button read as `button`: rotate on a rising edge
HandleInput(button) ==
    /\ pc = "loop"
    /\ button # lastButtonState
    /\ nInputs < MaxInputs
    /\ currentPiece' = IF button = 1 /\ lastButtonState = 0
                       THEN rotate_piece(board, currentPiece)
                       ELSE currentPiece
    /\ lastButtonState' = button
    /\ nInputs' = nInputs + 1
    /\ UNCHANGED <<auxVars, board, gameOver, score, speed, randState, lastSwitchState,
                   pc, localVars, ret, nTicks>>

\* a switch handler that takes a direction only if the piece could move that way
HandleSwitchChanges_Checked(sw) ==
    /\ pc = "loop"
    /\ sw # lastSwitchState
    /\ nInputs < MaxInputs
    /\ LET q == [currentPiece EXCEPT !.direction =
                     SwitchDirection(currentPiece.direction, sw, lastSwitchState)]
       IN  currentPiece' = IF check_collision(board, MovedPiece(q)) = 1
                           THEN currentPiece ELSE q
    /\ lastSwitchState' = sw
    /\ nInputs' = nInputs + 1
    /\ UNCHANGED <<auxVars, board, gameOver, score, speed, randState, lastButtonState,
                   pc, localVars, ret, nTicks>>

\* handle_switch_changes with the switches read as `sw`
HandleSwitchChanges(sw) ==
    /\ pc = "loop"
    /\ sw # lastSwitchState
    /\ nInputs < MaxInputs
    /\ currentPiece' = [currentPiece EXCEPT !.direction =
                            SwitchDirection(currentPiece.direction, sw, lastSwitchState)]
    /\ lastSwitchState' = sw
    /\ nInputs' = nInputs + 1
    /\ UNCHANGED <<auxVars, board, gameOver, score, speed, randState, lastButtonState,
                   pc, localVars, ret, nTicks>>

\* handle_tick_movement up to its collision check: move, and on a collision
\* undo the move and go on to lock_piece
HandleTickMovement ==
    /\ pc = "loop"
    /\ nTicks < MaxTicks
    /\ LET q == MovedPiece(currentPiece)
       IN  IF check_collision(board, q) = 1
           THEN currentPiece' = UndoMove(q) /\ pc' = "lock"
           ELSE currentPiece' = q /\ pc' = "loop"
    /\ nTicks' = nTicks + 1
    /\ UNCHANGED <<auxVars, board, gameOver, score, speed, randState, ioVars,
                   localVars, ret, nInputs>>

\* a lock that awards points for the piece it writes
LockPiece_Scoring ==
    /\ pc = "lock"
    /\ board' = lock_piece(board, currentPiece)
    /\ score' = score + 10
    /\ pc' = "check_lines"
    /\ UNCHANGED <<auxVars, currentPiece, gameOver, speed, randState, ioVars,
                   localVars, ret, nTicks, nInputs>>

\* lock_piece(), called by handle_tick_movement
LockPiece ==
    /\ pc = "lock"
    /\ board' = lock_piece(board, currentPiece)
    /\ pc' = "check_lines"
    /\ UNCHANGED <<auxVars, currentPiece, gameOver, score, speed, randState, ioVars,
                   localVars, ret, nTicks, nInputs>>

\* a pass that calls apply_gravity whether or not a line was cleared
CheckLines_AlwaysGravity ==
    /\ pc = "check_lines"
    /\ LET r == ScanLines(board)
       IN  /\ board' = r.b
           /\ linesCleared' = r.n
           /\ lastClearedRow' = r.row
           /\ lastClearedCol' = r.col
           /\ pc' = "gravity"
    /\ changes' = 0
    /\ UNCHANGED <<auxVars, currentPiece, gameOver, score, speed, randState, ioVars,
                   ret, nTicks, nInputs>>

\* check_lines(): the two scans, which clear the complete lines they find
CheckLines ==
    /\ pc = "check_lines"
    /\ LET r == ScanLines(board)
       IN  /\ board' = r.b
           /\ linesCleared' = r.n
           /\ lastClearedRow' = r.row
           /\ lastClearedCol' = r.col
           /\ pc' = IF r.row # -1 \/ r.col # -1 THEN "gravity" ELSE "score"
    /\ changes' = 0
    /\ UNCHANGED <<auxVars, currentPiece, gameOver, score, speed, randState, ioVars,
                   ret, nTicks, nInputs>>

\* a gravity that makes one sweep and returns
GravitySweep_Once ==
    /\ pc = "gravity"
    /\ LET r == GravitySweepOf(board, lastClearedRow, lastClearedCol)
       IN  /\ board' = r.b
           /\ changes' = 0
           /\ pc' = "score"
    /\ UNCHANGED <<auxVars, currentPiece, gameOver, score, speed, randState, ioVars,
                   linesCleared, lastClearedRow, lastClearedCol, ret, nTicks, nInputs>>

\* one do-while iteration of apply_gravity(lastClearedRow, lastClearedCol)
GravitySweep ==
    /\ pc = "gravity"
    /\ LET r == GravitySweepOf(board, lastClearedRow, lastClearedCol)
       IN  /\ board' = r.b
           /\ changes' = r.n
           /\ pc' = IF r.n > 0 THEN "gravity" ELSE "score"
    /\ UNCHANGED <<auxVars, currentPiece, gameOver, score, speed, randState, ioVars,
                   linesCleared, lastClearedRow, lastClearedCol, ret, nTicks, nInputs>>

\* check_lines(): the switch on linesCleared
UpdateScore ==
    /\ pc = "score"
    /\ score' = score + ScoreFor(linesCleared)
    /\ speed' = SpeedAfter(speed, score', linesCleared)
    /\ pc' = "spawn"
    /\ UNCHANGED <<auxVars, board, currentPiece, gameOver, randState, ioVars,
                   localVars, ret, nTicks, nInputs>>

\* a spawn that runs its collision check before it places the new piece
SpawnPiece_StaleCheck ==
    /\ pc = "spawn"
    /\ currentPiece' = SpawnedPiece(randState)
    /\ randState' = SpawnedState(randState)
    /\ gameOver' = IF check_collision(board, currentPiece) = 1 THEN 1 ELSE gameOver
    /\ pc' = IF gameOver' = 1 THEN "over" ELSE "loop"
    /\ UNCHANGED <<auxVars, board, score, speed, ioVars, localVars, ret, nTicks, nInputs>>

\* a spawn after which the main loop goes on whatever gameOver is
SpawnPiece_LoopOn ==
    /\ pc = "spawn"
    /\ currentPiece' = SpawnedPiece(randState)
    /\ randState' = SpawnedState(randState)
    /\ gameOver' = IF check_collision(board, currentPiece') = 1 THEN 1 ELSE gameOver
    /\ pc' = "loop"
    /\ UNCHANGED <<auxVars, board, score, speed, ioVars, localVars, ret, nTicks, nInputs>>

\* spawn_piece(), called by handle_tick_movement and by main
SpawnPiece ==
    /\ pc = "spawn"
    /\ currentPiece' = SpawnedPiece(randState)
    /\ randState' = SpawnedState(randState)
    /\ gameOver' = IF check_collision(board, currentPiece') = 1 THEN 1 ELSE gameOver
    /\ pc' = IF gameOver' = 1 THEN "over" ELSE "loop"
    /\ UNCHANGED <<auxVars, board, score, speed, ioVars, localVars, ret, nTicks, nInputs>>

\* a reset that does not clear the score
Restart_KeepScore(seed, sw) ==
    /\ pc = "over"
    /\ randState' = <<0, seed>>
    /\ speed' = startSpeed
    /\ gameOver' = 0
    /\ lastButtonState' = 0
    /\ lastSwitchState' = sw
    /\ board' = init_board
    /\ pc' = "spawn"
    /\ nTicks' = 0
    /\ nInputs' = 0
    /\ timeoutcount' = 0
    /\ nLoops' = 0
    /\ nExpired' = 0
    /\ UNCHANGED <<score, currentPiece, localVars, ret, entry, timerStatus, irq>>

\* main from game_start to init_board, after the button press that ends the
\* game-over wait: the timer value `seed` and the switches `sw` are read
Restart(seed, sw) ==
    /\ pc = "over"
    /\ randState' = <<0, seed>>
    /\ speed' = startSpeed
    /\ gameOver' = 0
    /\ score' = 0
    /\ lastButtonState' = 0
    /\ lastSwitchState' = sw
    /\ board' = init_board
    /\ pc' = "spawn"
    /\ nTicks' = 0
    /\ nInputs' = 0
    /\ timeoutcount' = 0
    /\ nLoops' = 0
    /\ nExpired' = 0
    /\ UNCHANGED <<currentPiece, localVars, ret, entry, timerStatus, irq>>

Next ==
    \/ \E button \in 0..1 : HandleInput(button)
    \/ \E sw \in SwitchValues : HandleSwitchChanges(sw)
    \/ HandleTickMovement
    \/ LockPiece
    \/ CheckLines
    \/ GravitySweep
    \/ UpdateScore
    \/ SpawnPiece
    \/ \E seed \in 0..MaxSeed, sw \in SwitchValues : Restart(seed, sw)

----------------------------------------------------------------------------
(* Initial states *)

NoPiece == [x |-> 0, y |-> 0, type |-> 0, rotation |-> 0, direction |-> 0]

\* main, from game_start to init_board: the session before its first spawn_piece
InitReset ==
    /\ board = init_board
    /\ currentPiece = NoPiece
    /\ gameOver = 0
    /\ score = 0
    /\ speed = startSpeed
    /\ randState \in {<<0, seed>> : seed \in 0..MaxSeed}
    /\ lastButtonState = 0
    /\ lastSwitchState \in SwitchValues
    /\ pc = "spawn"
    /\ linesCleared = 0
    /\ lastClearedRow = -1
    /\ lastClearedCol = -1
    /\ changes = 0
    /\ ret = 0
    /\ nTicks = 0
    /\ nInputs = 0
    /\ timeoutcount = 0
    /\ timerStatus = 0
    /\ irq = 0
    /\ nExpired = 0
    /\ nLoops = 0
    /\ entry = NoPiece

\* the board cells a placement occupies, as <<y, x>>
Footprint(p) ==
    {<<p.y + dy, p.x + dx>> : <<dy, dx>> \in
        {c \in (0..3) \X (0..3) : ShapeBit(Shape(p), c[1], c[2]) = 1}}

FootRows(p) == {c[1] : c \in Footprint(p)}
FootCols(p) == {c[2] : c \in Footprint(p)}

\* the colour tags of the cells locked earlier in a mid-game board
TagAt(y, x) == 1 + ((x + 2 * y) % 7)

\* cells left behind by earlier pieces, away from the centre lines
Debris == {<<y, x>> \in Rows \X Cols : y \in {3, 6, 13, 16} /\ x \in {2, 5, 14, 17}}

\* mid-game placements next to the spawn point: I flat, I upright, O, T upright
MidPieces ==
    {[x |-> SpawnX, y |-> SpawnY, type |-> k[1], rotation |-> k[2], direction |-> d] :
        k \in {<<0, 0>>, <<0, 1>>, <<3, 0>>, <<5, 1>>}, d \in 0..3}

\* a mid-game board around the live piece p: the rows in rs and the columns in cs
\* are full but for the cells of p, which are empty, and the cells in deb are occupied
MidBoard(p, rs, cs, deb) ==
    [y \in Rows |-> [x \in Cols |->
        IF <<y, x>> \in Footprint(p) THEN BLACK
        ELSE IF y \in rs \/ x \in cs \/ <<y, x>> \in deb THEN TagAt(y, x)
        ELSE BLACK]]

\* a session in mid-game, at a main-loop boundary: a live piece next to the
\* spawn point, lines that the piece would complete, debris of earlier pieces
InitMid ==
    /\ \E p \in MidPieces :
       \E rs \in {{}, FootRows(p)}, cs \in {{}, FootCols(p)}, deb \in {{}, Debris} :
           /\ currentPiece = p
           /\ board = MidBoard(p, rs, cs, deb)
    /\ gameOver = 0
    /\ score = 0
    /\ speed = startSpeed
    /\ randState = <<0, 1>>
    /\ lastButtonState = 0
    /\ lastSwitchState = 0
    /\ pc = "loop"
    /\ linesCleared = 0
    /\ lastClearedRow = -1
    /\ lastClearedCol = -1
    /\ changes = 0
    /\ ret = 0
    /\ nTicks = 0
    /\ nInputs = 0
    /\ timeoutcount = 0
    /\ timerStatus = 0
    /\ irq = 0
    /\ nExpired = 0
    /\ nLoops = 0
    /\ entry = NoPiece

Init == InitReset \/ InitMid

Spec == Init /\ [][Next]_vars

----------------------------------------------------------------------------
(* The main loop, one handler after the other *)

\* handle_input() at the top of an iteration, the button read as `button`
LoopInput(button) ==
    /\ pc = "loop"
    /\ nLoops < MaxLoops
    /\ button = lastButtonState \/ nInputs < MaxInputs
    /\ currentPiece' = IF button = 1 /\ lastButtonState = 0
                       THEN rotate_piece(board, currentPiece)
                       ELSE currentPiece
    /\ lastButtonState' = button
    /\ nInputs' = IF button = lastButtonState THEN nInputs ELSE nInputs + 1
    /\ nLoops' = nLoops + 1
    /\ pc' = "switches"
    /\ UNCHANGED <<board, gameOver, score, speed, randState, lastSwitchState,
                   localVars, ret, nTicks, timeoutcount, entry, timerVars>>

\* handle_switch_changes() after handle_input, the switches read as `sw`
LoopSwitches(sw) ==
    /\ pc = "switches"
    /\ sw = lastSwitchState \/ nInputs < MaxInputs
    /\ currentPiece' = [currentPiece EXCEPT !.direction =
                            SwitchDirection(currentPiece.direction, sw, lastSwitchState)]
    /\ lastSwitchState' = sw
    /\ nInputs' = IF sw = lastSwitchState THEN nInputs ELSE nInputs + 1
    /\ pc' = "timer"
    /\ UNCHANGED <<board, gameOver, score, speed, randState, lastButtonState,
                   localVars, ret, nTicks, auxVars>>

\* the timer poll after the two input handlers, the timeout flag read as
\* `flag`: count the expiry, and at TicksPerMove expiries make the tick-move
\* of handle_tick_movement up to its collision check
LoopTimer(flag) ==
    /\ pc = "timer"
    /\ IF flag = 1 /\ timeoutcount + 1 >= TicksPerMove
       THEN /\ nTicks < MaxTicks
            /\ timeoutcount' = 0
            /\ nTicks' = nTicks + 1
            /\ LET q == MovedPiece(currentPiece)
               IN  IF check_collision(board, q) = 1
                   THEN currentPiece' = UndoMove(q) /\ pc' = "lock"
                   ELSE currentPiece' = q /\ pc' = "loop"
       ELSE /\ timeoutcount' = timeoutcount + flag
            /\ pc' = "loop"
            /\ UNCHANGED <<currentPiece, nTicks>>
    /\ UNCHANGED <<board, gameOver, score, speed, randState, ioVars,
                   localVars, ret, nInputs, entry, nLoops, timerVars>>

NextLoop ==
    \/ \E button \in 0..1 : LoopInput(button)
    \/ \E sw \in SwitchValues : LoopSwitches(sw)
    \/ \E flag \in 0..1 : LoopTimer(flag)
    \/ LockPiece
    \/ CheckLines
    \/ GravitySweep
    \/ UpdateScore
    \/ SpawnPiece
    \/ \E seed \in 0..MaxSeed, sw \in SwitchValues : Restart(seed, sw)

\* a session in mid-game at the top of an iteration, a tick-move at most
\* MaxLead timer expiries away
InitLoop ==
    /\ \E p \in MidPieces :
       \E rs \in {{}, FootRows(p)}, cs \in {{}, FootCols(p)} :
           /\ currentPiece = p
           /\ board = MidBoard(p, rs, cs, Debris)
    /\ timeoutcount \in (TicksPerMove - MaxLead) .. (TicksPerMove - 1)
    /\ timerStatus = 0
    /\ irq = 0
    /\ nExpired = 0
    /\ gameOver = 0
    /\ score = 0
    /\ speed = startSpeed
    /\ randState = <<0, 1>>
    /\ lastButtonState = 0
    /\ lastSwitchState = 0
    /\ pc = "loop"
    /\ linesCleared = 0
    /\ lastClearedRow = -1
    /\ lastClearedCol = -1
    /\ changes = 0
    /\ ret = 0
    /\ nTicks = 0
    /\ nInputs = 0
    /\ entry = NoPiece
    /\ nLoops = 0

SpecLoop == InitLoop /\ [][NextLoop]_vars

----------------------------------------------------------------------------
(* check_collision on its own: any board of a small family, any placement *)

\* the placements tried: every kind and rotation, the shape box anywhere from
\* wholly off the board on one side to wholly off it on the other
HarnessXY == (0 - 3 - MaxMargin) .. (BOARD_WIDTH - 1 + MaxMargin)

HarnessBoards ==
    { EmptyBoard,
      MidBoard([x |-> SpawnX, y |-> SpawnY, type |-> 0, rotation |-> 0, direction |-> 0],
               {9}, {9}, Debris) }

InitCollision ==
    /\ board \in HarnessBoards
    /\ \E k \in 0..6, r \in 0..3, px \in HarnessXY, py \in HarnessXY :
           currentPiece = [x |-> px, y |-> py, type |-> k, rotation |-> r,
                           direction |-> DIR_DOWN]
    /\ gameOver = 0
    /\ score = 0
    /\ speed = startSpeed
    /\ randState = <<0, 1>>
    /\ lastButtonState = 0
    /\ lastSwitchState = 0
    /\ pc = "check"
    /\ linesCleared = 0
    /\ lastClearedRow = -1
    /\ lastClearedCol = -1
    /\ changes = 0
    /\ ret = 0
    /\ nTicks = 0
    /\ nInputs = 0
    /\ timeoutcount = 0
    /\ timerStatus = 0
    /\ irq = 0
    /\ nExpired = 0
    /\ nLoops = 0
    /\ entry = NoPiece

\* a call check_collision(&currentPiece)
CallCheckCollision ==
    /\ pc = "check"
    /\ ret' = check_collision(board, currentPiece)
    /\ pc' = "done"
    /\ UNCHANGED <<auxVars, gameVars, ioVars, localVars, nTicks, nInputs>>

SpecCollision == InitCollision /\ [][CallCheckCollision]_vars

----------------------------------------------------------------------------
(* rotate_piece on its own: consecutive calls with no other event between *)

\* positions at the walls, next to them and at the spawn point
RotateXY == {0, 1, SpawnX, BOARD_WIDTH - 4, BOARD_WIDTH - 3}

\* a valid placement of any kind and rotation on a harness board
InitRotate ==
    /\ board \in HarnessBoards
    /\ \E k \in 0..6, r \in 0..3, px \in RotateXY, py \in RotateXY :
           currentPiece = [x |-> px, y |-> py, type |-> k, rotation |-> r,
                           direction |-> DIR_DOWN]
    /\ check_collision(board, currentPiece) = 0
    /\ entry = currentPiece
    /\ gameOver = 0
    /\ score = 0
    /\ speed = startSpeed
    /\ randState = <<0, 1>>
    /\ lastButtonState = 0
    /\ lastSwitchState = 0
    /\ pc = "rotate"
    /\ linesCleared = 0
    /\ lastClearedRow = -1
    /\ lastClearedCol = -1
    /\ changes = 0
    /\ ret = 0
    /\ nTicks = 0
    /\ nInputs = 0
    /\ timeoutcount = 0
    /\ timerStatus = 0
    /\ irq = 0
    /\ nExpired = 0
    /\ nLoops = 0

\* a call rotate_piece()
CallRotatePiece ==
    /\ pc = "rotate"
    /\ nInputs < MaxRotations
    /\ currentPiece' = rotate_piece(board, currentPiece)
    /\ nInputs' = nInputs + 1
    /\ UNCHANGED <<board, gameOver, score, speed, randState, ioVars, pc,
                   localVars, ret, nTicks, auxVars>>

SpecRotate == InitRotate /\ [][CallRotatePiece]_vars

-----------------------------------------------------------------------------
(* The timer: the device, its interrupt handler and the poll of the main loop *)

\* the timer reaches the end of its period: init_timer has written 0x7 to
\* TIMER_CONTROL, so the device sets bit 0 of TIMER_STATUS and requests an
\* interrupt. Only expiries that find the previous one cleared by the main
\* loop are modelled: none is missed by the poll.
TimerExpire ==
    /\ pc # "over"
    /\ timerStatus = 0
    /\ timerStatus' = 1
    /\ irq' = 1
    /\ nExpired' = nExpired + 1
    /\ UNCHANGED <<gameVars, ioVars, localVars, pc, ret, nTicks, nInputs,
                   timeoutcount, entry, nLoops>>

\* handle_interrupt(), run once for a pending request, anywhere between two
\* steps of main: it sets bit 0 of the register at 0x04000024, which is
\* TIMER_CONTROL and has that bit set already, and increments timeoutcount.
\* Bit 0 of TIMER_STATUS is left as it is.
HandleInterrupt ==
    /\ irq = 1
    /\ irq' = 0
    /\ timeoutcount' = timeoutcount + 1
    /\ UNCHANGED <<gameVars, ioVars, localVars, pc, ret, nTicks, nInputs,
                   entry, nLoops, timerStatus, nExpired>>

\* one iteration of the main loop in which button and switches read as they
\* did before, so that handle_input and handle_switch_changes change nothing,
\* followed by the poll: if bit 0 of TIMER_STATUS is set, timeoutcount++, the
\* bit is cleared, and if timeoutcount >= 20 then timeoutcount = 0 and
\* handle_tick_movement() is called.
\* timeoutcount is a plain int shared with handle_interrupt: with served = 1
\* the handler runs inside the poll, between the load and the store of the
\* increment or before the reset to 0, and its own increment is overwritten;
\* a handler run whose increment survives is a HandleInterrupt step before or
\* after this one.
PollTimer(served) ==
    /\ pc = "loop"
    /\ served <= irq
    /\ timerStatus = 1
    /\ timerStatus' = 0
    /\ irq' = irq - served
    /\ IF timeoutcount + 1 >= TicksPerMove
       THEN /\ nTicks < MaxTicks
            /\ timeoutcount' = 0
            /\ nExpired' = 0
            /\ nTicks' = nTicks + 1
            /\ LET q == MovedPiece(currentPiece)
               IN  IF check_collision(board, q) = 1
                   THEN currentPiece' = UndoMove(q) /\ pc' = "lock"
                   ELSE currentPiece' = q /\ pc' = "loop"
       ELSE /\ timeoutcount' = timeoutcount + 1
            /\ UNCHANGED <<currentPiece, nTicks, pc, nExpired>>
    /\ UNCHANGED <<board, gameOver, score, speed, randState, ioVars,
                   localVars, ret, nInputs, entry, nLoops>>

NextTimer ==
    \/ TimerExpire
    \/ HandleInterrupt
    \/ \E served \in 0..1 : PollTimer(served)
    \/ LockPiece
    \/ CheckLines
    \/ GravitySweep
    \/ UpdateScore
    \/ SpawnPiece

\* mid-game placements of the I and the O piece, falling down or to the left
TimerPieces ==
    {p \in MidPieces : p.rotation = 0 /\ p.direction \in {DIR_DOWN, DIR_LEFT}}

\* a session in mid-game at the top of an iteration, right after a tick-move:
\* no expiry counted, none pending
InitTimer ==
    /\ \E p \in TimerPieces :
       \E rs \in {{}, FootRows(p)} :
           /\ currentPiece = p
           /\ board = MidBoard(p, rs, {}, {})
    /\ timeoutcount = 0
    /\ timerStatus = 0
    /\ irq = 0
    /\ nExpired = 0
    /\ gameOver = 0
    /\ score = 0
    /\ speed = startSpeed
    /\ randState = <<0, 1>>
    /\ lastButtonState = 0
    /\ lastSwitchState = 0
    /\ pc = "loop"
    /\ linesCleared = 0
    /\ lastClearedRow = -1
    /\ lastClearedCol = -1
    /\ changes = 0
    /\ ret = 0
    /\ nTicks = 0
    /\ nInputs = 0
    /\ entry = NoPiece
    /\ nLoops = 0

SpecTimer == InitTimer /\ [][NextTimer]_vars

----------------------------------------------------------------------------
(* The score switch of check_lines over a session: pass after pass *)

\* a session after its reset, before its first line-clear pass
InitScore ==
    /\ board = init_board
    /\ currentPiece = NoPiece
    /\ entry = NoPiece
    /\ gameOver = 0
    /\ score = 0
    /\ speed = startSpeed
    /\ randState = <<0, 1>>
    /\ lastButtonState = 0
    /\ lastSwitchState = 0
    /\ pc = "pass"
    /\ linesCleared = 0
    /\ lastClearedRow = -1
    /\ lastClearedCol = -1
    /\ changes = 0
    /\ ret = 0
    /\ nTicks = 0
    /\ nInputs = 0
    /\ timeoutcount = 0
    /\ timerStatus = 0
    /\ irq = 0
    /\ nExpired = 0
    /\ nLoops = 0

\* the switch of check_lines in a pass that cleared n lines
CallScoreSwitch(n) ==
    /\ pc = "pass"
    /\ nTicks < MaxPasses
    /\ linesCleared' = n
    /\ score' = score + ScoreFor(n)
    /\ speed' = SpeedAfter(speed, score', n)
    /\ nTicks' = nTicks + 1
    /\ UNCHANGED <<board, currentPiece, gameOver, randState, ioVars, pc,
                   lastClearedRow, lastClearedCol, changes, ret, nInputs, auxVars>>

SpecScore == InitScore /\ [][\E n \in 0..MaxLines : CallScoreSwitch(n)]_vars

----------------------------------------------------------------------------
(* apply_gravity on its own: any board of a small family, any pair of indices *)

\* the cells a harness board may have occupied: near the edges and at the centre
GravityCells == {2, 8, 10, 17} \X {2, 9, 17}

\* the subsets of S with at most k elements
RECURSIVE SubsetsUpTo(_, _)
SubsetsUpTo(S, k) ==
    IF k = 0 THEN {{}}
    ELSE LET prev == SubsetsUpTo(S, k - 1)
         IN  prev \cup {p \cup {c} : p \in prev, c \in S}

GravityBoards ==
    { [y \in Rows |-> [x \in Cols |-> IF <<y, x>> \in cs THEN TagAt(y, x) ELSE BLACK]] :
        cs \in SubsetsUpTo(GravityCells, MaxCells) }

\* the indices handed to apply_gravity: none, just above, just below the centre
GravityIndexes == {-1, centerY - 1, centerY}

InitGravity ==
    /\ board \in GravityBoards
    /\ lastClearedRow \in GravityIndexes
    /\ lastClearedCol \in GravityIndexes
    /\ currentPiece = NoPiece
    /\ gameOver = 0
    /\ score = 0
    /\ speed = startSpeed
    /\ randState = <<0, 1>>
    /\ lastButtonState = 0
    /\ lastSwitchState = 0
    /\ pc = "gravity"
    /\ linesCleared = 1
    /\ changes = 0
    /\ ret = 0
    /\ nTicks = 0
    /\ nInputs = 0
    /\ timeoutcount = 0
    /\ timerStatus = 0
    /\ irq = 0
    /\ nExpired = 0
    /\ nLoops = 0
    /\ entry = NoPiece

SpecGravity == InitGravity /\ [][GravitySweep]_vars

\* the do-while loop of apply_gravity always takes its next iteration
SpecGravityFair == SpecGravity /\ WF_vars(GravitySweep)

----------------------------------------------------------------------------
(* spawn_piece on its own: a family of random states and of boards *)

\* the high half of the random state: both ends, both sides of bit 15
SpawnHighs == {0, 1, 32767, 32768, 65535}

\* the board with the one cell (y, x) occupied
OneCell(y, x) ==
    [r \in Rows |-> [c \in Cols |-> IF r = y /\ c = x THEN TagAt(y, x) ELSE BLACK]]

\* empty; the cell every rotation-0 shape covers; a cell only J and Z cover;
\* a cell no spawned piece covers
SpawnBoards ==
    { EmptyBoard,
      OneCell(SpawnY + 1, SpawnX + 1),
      OneCell(SpawnY, SpawnX),
      OneCell(0, 0) }

InitSpawn ==
    /\ board \in SpawnBoards
    /\ \E hi \in SpawnHighs, lo \in 0..MaxDraw : randState = <<hi, lo>>
    /\ currentPiece = NoPiece
    /\ gameOver = 0
    /\ score = 0
    /\ speed = startSpeed
    /\ lastButtonState = 0
    /\ lastSwitchState = 0
    /\ pc = "spawn"
    /\ linesCleared = 0
    /\ lastClearedRow = -1
    /\ lastClearedCol = -1
    /\ changes = 0
    /\ ret = 0
    /\ nTicks = 0
    /\ nInputs = 0
    /\ timeoutcount = 0
    /\ timerStatus = 0
    /\ irq = 0
    /\ nExpired = 0
    /\ nLoops = 0
    /\ entry = NoPiece

SpecSpawn == InitSpawn /\ [][SpawnPiece]_vars

----------------------------------------------------------------------------
(* Falls across the board: sessions without input, up to MaxFall tick-moves *)

\* handle_tick_movement as in HandleTickMovement, up to MaxFall calls
FallTick ==
    /\ pc = "loop"
    /\ nTicks < MaxFall
    /\ LET q == MovedPiece(currentPiece)
       IN  IF check_collision(board, q) = 1
           THEN currentPiece' = UndoMove(q) /\ pc' = "lock"
           ELSE currentPiece' = q /\ pc' = "loop"
    /\ nTicks' = nTicks + 1
    /\ UNCHANGED <<auxVars, board, gameOver, score, speed, randState, ioVars,
                   localVars, ret, nInputs>>

NextFall ==
    \/ FallTick
    \/ LockPiece
    \/ CheckLines
    \/ GravitySweep
    \/ UpdateScore
    \/ SpawnPiece

\* timer values from which spawn_piece draws direction down, one for each kind
\* (I, J, L, O, S, T, Z)
FallSeeds == {0, 8, 51, 11, 14, 37, 17}

\* main after init_board, before its spawn_piece, the timer read as a fall seed
InitFall ==
    /\ board = init_board
    /\ currentPiece = NoPiece
    /\ gameOver = 0
    /\ score = 0
    /\ speed = startSpeed
    /\ \E seed \in FallSeeds : randState = <<0, seed>>
    /\ lastButtonState = 0
    /\ lastSwitchState = 0
    /\ pc = "spawn"
    /\ linesCleared = 0
    /\ lastClearedRow = -1
    /\ lastClearedCol = -1
    /\ changes = 0
    /\ ret = 0
    /\ nTicks = 0
    /\ nInputs = 0
    /\ timeoutcount = 0
    /\ timerStatus = 0
    /\ irq = 0
    /\ nExpired = 0
    /\ nLoops = 0
    /\ entry = NoPiece

\* the column of row y that is empty in the stack
StackHole(y) == 1 + 3 * y

\* the upper half stacked five cells deep: rows 0..4 with one hole each and the
\* cell of the hole's column in row 5, column 8 filled down to row 8, row 9
\* full but for the four cells of the live piece
StackBoard ==
    [y \in Rows |-> [x \in Cols |->
        IF x = SpawnX /\ y <= SpawnY THEN TagAt(y, x)
        ELSE IF y <= 4 THEN (IF x = StackHole(y) THEN BLACK ELSE TagAt(y, x))
        ELSE IF y = 5 THEN (IF x \in {StackHole(r) : r \in 0..4} THEN TagAt(y, x) ELSE BLACK)
        ELSE IF y = centerY - 1 THEN (IF x \in SpawnX .. (SpawnX + 3) THEN BLACK ELSE TagAt(y, x))
        ELSE BLACK]]

\* a session in mid-game at a main-loop boundary: an I piece lies in the gap of
\* row 9 under the stack, moving up
InitStack ==
    /\ board = StackBoard
    /\ currentPiece = [x |-> SpawnX, y |-> SpawnY, type |-> 0, rotation |-> 0,
                       direction |-> DIR_UP]
    /\ gameOver = 0
    /\ score = 0
    /\ speed = startSpeed
    /\ randState = <<0, 1>>
    /\ lastButtonState = 0
    /\ lastSwitchState = 0
    /\ pc = "loop"
    /\ linesCleared = 0
    /\ lastClearedRow = -1
    /\ lastClearedCol = -1
    /\ changes = 0
    /\ ret = 0
    /\ nTicks = 0
    /\ nInputs = 0
    /\ timeoutcount = 0
    /\ timerStatus = 0
    /\ irq = 0
    /\ nExpired = 0
    /\ nLoops = 0
    /\ entry = NoPiece

\* the input-free runs start at game_start or in mid-game
InitRuns == InitFall \/ InitStack

SpecFall == InitRuns /\ [][NextFall]_vars

----------------------------------------------------------------------------
(* check_lines on its own: boards that are full but for one empty row *)

\* the rows in rs full, row e empty, colours shifted by s
GapBoard(e, rs, s) ==
    [y \in Rows |-> [x \in Cols |->
        IF y \in rs /\ y # e THEN 1 + ((x + 2 * y + s) % 7) ELSE BLACK]]

\* the empty row is above the centre; the full rows are all others, or all
\* others above the centre
InitGap ==
    /\ \E e \in TopRows, rs \in {Rows, TopRows}, s \in 0..6 : board = GapBoard(e, rs, s)
    /\ currentPiece = NoPiece
    /\ gameOver = 0
    /\ score = 0
    /\ speed = startSpeed
    /\ randState = <<0, 1>>
    /\ lastButtonState = 0
    /\ lastSwitchState = 0
    /\ pc = "check_lines"
    /\ linesCleared = 0
    /\ lastClearedRow = -1
    /\ lastClearedCol = -1
    /\ changes = 0
    /\ ret = 0
    /\ nTicks = 0
    /\ nInputs = 0
    /\ timeoutcount = 0
    /\ timerStatus = 0
    /\ irq = 0
    /\ nExpired = 0
    /\ nLoops = 0
    /\ entry = NoPiece

\* a call check_lines(): the scans, apply_gravity, the score switch
NextGap ==
    \/ CheckLines
    \/ GravitySweep
    \/ UpdateScore

SpecGap == InitGap /\ [][NextGap]_vars

----------------------------------------------------------------------------
(* The life of one piece, from its spawn to the end of its tick-move *)

\* handle_input as in HandleInput, any number of calls
TurnInput(button) ==
    /\ pc = "loop"
    /\ button # lastButtonState
    /\ currentPiece' = IF button = 1 /\ lastButtonState = 0
                       THEN rotate_piece(board, currentPiece)
                       ELSE currentPiece
    /\ lastButtonState' = button
    /\ UNCHANGED <<auxVars, board, gameOver, score, speed, randState, lastSwitchState,
                   pc, localVars, ret, nTicks, nInputs>>

\* row 19 full but for the four columns under the spawn point
PitBoard ==
    [y \in Rows |-> [x \in Cols |->
        IF y = BOARD_HEIGHT - 1 /\ x \notin SpawnX .. (SpawnX + 3) THEN TagAt(y, x) ELSE BLACK]]

\* the debris of earlier pieces, away from the spawn point
DebrisBoard ==
    [y \in Rows |-> [x \in Cols |-> IF <<y, x>> \in Debris THEN TagAt(y, x) ELSE BLACK]]

PieceBoards == {EmptyBoard, PitBoard, DebrisBoard}

\* the main loop right after a spawn_piece that did not collide: any kind, any
\* direction, rotation 0 at the spawn point
InitPiece ==
    /\ board \in PieceBoards
    /\ \E k \in 0..6, d \in 0..3 :
           currentPiece = [x |-> SpawnX, y |-> SpawnY, type |-> k, rotation |-> 0,
                           direction |-> d]
    /\ gameOver = 0
    /\ score = 0
    /\ speed = startSpeed
    /\ randState = <<0, 1>>
    /\ lastButtonState = 0
    /\ lastSwitchState = 0
    /\ pc = "loop"
    /\ linesCleared = 0
    /\ lastClearedRow = -1
    /\ lastClearedCol = -1
    /\ changes = 0
    /\ ret = 0
    /\ nTicks = 0
    /\ nInputs = 0
    /\ timeoutcount = 0
    /\ timerStatus = 0
    /\ irq = 0
    /\ nExpired = 0
    /\ nLoops = 0
    /\ entry = NoPiece

\* rotations and tick-moves, no direction change, up to the spawn of the successor
NextTurn ==
    \/ \E button \in 0..1 : TurnInput(button)
    \/ FallTick
    \/ LockPiece
    \/ CheckLines
    \/ GravitySweep
    \/ UpdateScore

SpecTurn == InitPiece /\ [][NextTurn]_vars
\* a handle_input that rotates whenever it reads the button as pressed
PollInput_Level(button) ==
    /\ pc = "loop"
    /\ nLoops < MaxPresses
    /\ currentPiece' = IF button = 1
                       THEN rotate_piece(board, currentPiece)
                       ELSE currentPiece
    /\ lastButtonState' = button
    /\ nInputs' = IF button = lastButtonState THEN nInputs ELSE nInputs + 1
    /\ nLoops' = nLoops + 1
    /\ UNCHANGED <<board, gameOver, score, speed, randState, lastSwitchState, pc,
                   localVars, ret, nTicks, timeoutcount, entry, timerVars>>

\* handle_input() in one iteration of the main loop, the button read as
\* `button`, pressed, held or released at will; the switches read as before
\* and the timer has not expired, so the rest of the iteration changes nothing
PollInput(button) ==
    /\ pc = "loop"
    /\ nLoops < MaxPresses
    /\ currentPiece' = IF button = 1 /\ lastButtonState = 0
                       THEN rotate_piece(board, currentPiece)
                       ELSE currentPiece
    /\ lastButtonState' = button
    /\ nInputs' = IF button = lastButtonState THEN nInputs ELSE nInputs + 1
    /\ nLoops' = nLoops + 1
    /\ UNCHANGED <<board, gameOver, score, speed, randState, lastSwitchState, pc,
                   localVars, ret, nTicks, timeoutcount, entry, timerVars>>

\* the life of a piece at the spawn point under button polls alone
SpecPress == InitPiece /\ [][\E button \in 0..1 : PollInput(button)]_vars

----------------------------------------------------------------------------
(* The life of one piece under direction changes, tick-moves scheduled fairly *)

\* handle_switch_changes as in HandleSwitchChanges, any number of calls
TurnSwitch(sw) ==
    /\ pc = "loop"
    /\ sw # lastSwitchState
    /\ currentPiece' = [currentPiece EXCEPT !.direction =
                            SwitchDirection(currentPiece.direction, sw, lastSwitchState)]
    /\ lastSwitchState' = sw
    /\ UNCHANGED <<auxVars, board, gameOver, score, speed, randState, lastButtonState,
                   pc, localVars, ret, nTicks, nInputs>>

\* a tick-move that undoes a rejected move and leaves the piece live
FreeTick_NoLock ==
    /\ pc = "loop"
    /\ LET q == MovedPiece(currentPiece)
       IN  currentPiece' = IF check_collision(board, q) = 1 THEN UndoMove(q) ELSE q
    /\ UNCHANGED <<auxVars, board, gameOver, score, speed, randState, ioVars,
                   localVars, ret, nTicks, nInputs, pc>>

\* handle_tick_movement as in HandleTickMovement, any number of calls
FreeTick ==
    /\ pc = "loop"
    /\ LET q == MovedPiece(currentPiece)
       IN  IF check_collision(board, q) = 1
           THEN currentPiece' = UndoMove(q) /\ pc' = "lock"
           ELSE currentPiece' = q /\ pc' = "loop"
    /\ UNCHANGED <<auxVars, board, gameOver, score, speed, randState, ioVars,
                   localVars, ret, nTicks, nInputs>>

\* readings of the two low switches, right (0x1) and left (0x2)
FloatSwitches == 0 .. (SWITCH_RIGHT + SWITCH_LEFT)

\* the pit in row 19 under a shaft six columns wide: columns 6 and 13 are
\* occupied from row 8 down
ShaftBoard ==
    [y \in Rows |-> [x \in Cols |->
        IF y >= SpawnY /\ x \in {SpawnX - 2, SpawnX + 5} THEN TagAt(y, x)
        ELSE PitBoard[y][x]]]

\* right after a spawn: an I piece moving down or right in the shaft
InitFloat ==
    /\ board = ShaftBoard
    /\ \E d \in {DIR_DOWN, DIR_RIGHT} :
           currentPiece = [x |-> SpawnX, y |-> SpawnY, type |-> 0, rotation |-> 0,
                           direction |-> d]
    /\ gameOver = 0
    /\ score = 0
    /\ speed = startSpeed
    /\ randState = <<0, 1>>
    /\ lastButtonState = 0
    /\ lastSwitchState = 0
    /\ pc = "loop"
    /\ linesCleared = 0
    /\ lastClearedRow = -1
    /\ lastClearedCol = -1
    /\ changes = 0
    /\ ret = 0
    /\ nTicks = 0
    /\ nInputs = 0
    /\ timeoutcount = 0
    /\ timerStatus = 0
    /\ irq = 0
    /\ nExpired = 0
    /\ nLoops = 0
    /\ entry = NoPiece

NextFloat ==
    \/ \E button \in 0..1 : TurnInput(button)
    \/ \E sw \in FloatSwitches : TurnSwitch(sw)
    \/ FreeTick
    \/ LockPiece
    \/ CheckLines
    \/ GravitySweep
    \/ UpdateScore

\* the timer expires again and again: a tick-move that can be made is made
SpecFloat == InitFloat /\ [][NextFloat]_vars /\ WF_vars(FreeTick)

----------------------------------------------------------------------------
(* Vocabulary of the properties *)

Occupied(b) == {c \in Rows \X Cols : b[c[1]][c[2]] # BLACK}

\* some cell of the placement is off the board or on an occupied cell
Offending(b, p) ==
    \E c \in Footprint(p) :
        \/ c[1] \notin Rows
        \/ c[2] \notin Cols
        \/ b[c[1]][c[2]] # BLACK

\* the position one cell along the direction: down +y, up -y, left -x, right +x
StepX(d) == IF d = DIR_LEFT THEN -1 ELSE IF d = DIR_RIGHT THEN 1 ELSE 0
StepY(d) == IF d = DIR_UP THEN -1 ELSE IF d = DIR_DOWN THEN 1 ELSE 0
Translated(p) == [p EXCEPT !.x = p.x + StepX(p.direction), !.y = p.y + StepY(p.direction)]

FullRows(b) == {y \in Rows : \A x \in Cols : b[y][x] # BLACK}
FullCols(b) == {x \in Cols : \A y \in Rows : b[y][x] # BLACK}
RowEmpty(b, y) == \A x \in Cols : b[y][x] = BLACK
ColEmpty(b, x) == \A y \in Rows : b[y][x] = BLACK

\* how far a cell is from the edge it falls toward, over both axes
FallDistance(c, row, col) ==
    (IF row = -1 THEN 0
     ELSE IF row < centerY
          THEN (IF c[1] < centerY THEN c[1] ELSE 0)
          ELSE (IF c[1] >= centerY THEN (BOARD_HEIGHT - 1) - c[1] ELSE 0))
    +
    (IF col = -1 THEN 0
     ELSE IF col < centerX
          THEN (IF c[2] < centerX THEN c[2] ELSE 0)
          ELSE (IF c[2] >= centerX THEN (BOARD_WIDTH - 1) - c[2] ELSE 0))

\* the summed fall distance of the occupied cells
Potential(b, row, col) ==
    Cardinality({ck \in Occupied(b) \X (1 .. (BOARD_WIDTH + BOARD_HEIGHT)) :
                    ck[2] <= FallDistance(ck[1], row, col)})

Points == [n \in 0..4 |-> CASE n = 0 -> 0 [] n = 1 -> 100 [] n = 2 -> 300
                            [] n = 3 -> 500 [] n = 4 -> 800]

----------------------------------------------------------------------------
(* Properties *)

\* C1: check_collision returns 1 exactly when some occupied cell of the shape
\* mask, translated by (x, y), is outside the board or on a non-empty cell, and
\* the call changes neither the board nor the piece.
C1_CollisionIff ==
    [][pc = "check" =>
          /\ ret' \in {0, 1}
          /\ (ret' = 1) <=> Offending(board, currentPiece)
          /\ board' = board
          /\ currentPiece' = currentPiece]_vars

\* a placement wholly on the board that was rejected for an occupied cell
C1_Witness ==
    /\ pc = "done"
    /\ ret = 1
    /\ Footprint(currentPiece) \subseteq Rows \X Cols

\* C2: at every main-loop boundary of a running game the active piece is on
\* the board and on empty cells only.
C2_LivePieceFits ==
    (pc = "loop" /\ gameOver = 0) => ~Offending(board, currentPiece)

\* a live piece after a tick-move and an input, on a board with locked cells
C2_Witness ==
    /\ pc = "loop"
    /\ gameOver = 0
    /\ nTicks > 0
    /\ nInputs > 0
    /\ Occupied(board) # {}
    /\ ~Offending(board, currentPiece)

\* C3: the fall period is positive and stays above the threshold 1000.
C3_SpeedAboveThreshold == speed > 0 /\ speed > SpeedThreshold

\* C4: one line-clear pass clears and counts every row and every column that
\* was full on the board before the pass.
C4_JudgedOnPrePassBoard ==
    [][pc = "check_lines" =>
          /\ \A y \in FullRows(board) : RowEmpty(board', y)
          /\ \A x \in FullCols(board) : ColEmpty(board', x)
          /\ linesCleared' = Cardinality(FullRows(board)) + Cardinality(FullCols(board))]_vars

\* C5: a lock that completes a row and a column is followed by a pass that
\* clears both, so that apply_gravity runs with both indices set.
C5_RowAndColumnCleared ==
    [][(pc = "check_lines" /\ FullRows(board) # {} /\ FullCols(board) # {}) =>
          (pc' = "gravity" /\ lastClearedRow' # -1 /\ lastClearedCol' # -1)]_vars

\* C6: a pass that clears n lines, rows and columns together, adds 100, 300,
\* 500, 800 to the score for n = 1, 2, 3, 4 and nothing for n = 0.
C6_ScoreTable ==
    [][/\ pc = "check_lines" =>
            linesCleared' = Cardinality({y \in FullRows(board) : RowEmpty(board', y)})
                          + Cardinality({x \in FullCols(board) : ColEmpty(board', x)})
       /\ (pc = "score" /\ linesCleared \in 0..4) => score' = score + Points[linesCleared]]_vars

\* a pass that cleared four lines from score 0
C6_Witness == pc = "spawn" /\ linesCleared = 4 /\ score = 800

\* C7: apply_gravity terminates: every sweep with moves lowers the summed fall
\* distance of the occupied cells, and a sweep without moves is reached.
C7_GravityTerminates ==
    /\ [][(pc = "gravity" /\ changes' > 0) =>
             Potential(board', lastClearedRow, lastClearedCol)
                 < Potential(board, lastClearedRow, lastClearedCol)]_vars
    /\ (pc = "gravity") ~> (pc = "score" /\ changes = 0)

\* gravity with both indices set has returned after moving a cell to the top row
C7_Witness ==
    /\ pc = "score"
    /\ changes = 0
    /\ lastClearedRow # -1
    /\ lastClearedCol # -1
    /\ \E x \in Cols : board[0][x] # BLACK

\* C8: when apply_gravity returns, the half of the board it worked on is
\* compacted along the fall axis.
C8_Compacted ==
    pc = "score" =>
        /\ (lastClearedRow # -1 /\ lastClearedRow < centerY) =>
               \A y \in 1 .. (centerY - 1), x \in Cols :
                   board[y][x] # BLACK => board[y - 1][x] # BLACK
        /\ (lastClearedRow >= centerY) =>
               \A y \in centerY .. (BOARD_HEIGHT - 2), x \in Cols :
                   board[y][x] # BLACK => board[y + 1][x] # BLACK
        /\ (lastClearedCol >= centerX) =>
               \A x \in centerX .. (BOARD_WIDTH - 2), y \in Rows :
                   board[y][x] # BLACK => board[y][x + 1] # BLACK
        /\ (lastClearedCol # -1 /\ lastClearedCol < centerX) =>
               \A x \in 1 .. (centerX - 1), y \in Rows :
                   board[y][x] # BLACK => board[y][x - 1] # BLACK

\* gravity has returned with cells settled on the bottom row and the right column
C8_Witness ==
    /\ pc = "score"
    /\ lastClearedRow >= centerY
    /\ lastClearedCol >= centerX
    /\ \E x \in Cols : board[BOARD_HEIGHT - 1][x] # BLACK
    /\ \E y \in Rows : board[y][BOARD_WIDTH - 1] # BLACK

\* C9: a rejected tick-move leaves the piece where it was before the tick and
\* the piece is locked at that placement; an accepted tick-move shifts the
\* piece one cell along its direction and locks nothing.
C9_TickMove ==
    [][/\ (pc = "loop" /\ nTicks' = nTicks + 1) =>
            IF Offending(board, Translated(currentPiece))
            THEN currentPiece' = currentPiece /\ pc' = "lock" /\ board' = board
            ELSE /\ currentPiece' = Translated(currentPiece)
                 /\ pc' = "loop"
                 /\ board' = board
       /\ pc = "lock" =>
            /\ currentPiece' = currentPiece
            /\ Occupied(board') = Occupied(board) \cup Footprint(currentPiece)]_vars

\* a piece that moved away from the spawn point and was then rejected
C9_Witness ==
    /\ pc = "lock"
    /\ nTicks >= 2
    /\ (currentPiece.x # SpawnX \/ currentPiece.y # SpawnY)

\* C10: lock_piece sets the cells of the piece's footprint to the tag kind + 1
\* and leaves every other cell as it was.
C10_LockFrame ==
    [][pc = "lock" =>
          \A y \in Rows, x \in Cols :
              board'[y][x] = IF <<y, x>> \in Footprint(currentPiece)
                             THEN currentPiece.type + 1
                             ELSE board[y][x]]_vars

\* a piece was just locked: its footprint carries its tag
C10_Witness ==
    /\ pc = "check_lines"
    /\ \A c \in Footprint(currentPiece) : board[c[1]][c[2]] = currentPiece.type + 1

\* the session reset: the only step out of the game-over wait
RestartStep == pc = "over" /\ pc' = "spawn"

\* a button press that handle_input sees as a rising edge
RotateStep == pc = "loop" /\ lastButtonState = 0 /\ lastButtonState' = 1

Rotated(p) == [p EXCEPT !.rotation = (p.rotation + 1) % 4]

\* C11: gameOver goes from 0 to 1 only in spawn_piece, and a spawn sets it
\* exactly when the new placement (rotation 0 at the spawn point) is rejected.
C11_GameOverOnlyAtSpawn ==
    [][/\ (gameOver = 0 /\ gameOver' = 1) => pc = "spawn"
       /\ (pc = "spawn" /\ gameOver = 0) =>
            /\ currentPiece'.x = SpawnX /\ currentPiece'.y = SpawnY
            /\ currentPiece'.rotation = 0
            /\ (gameOver' = 1) <=> Offending(board, currentPiece')
            /\ gameOver' \in {0, 1}]_vars

\* a spawn was rejected: the game is over with the new piece on locked cells
C11_Witness ==
    /\ pc = "over"
    /\ gameOver = 1
    /\ Offending(board, currentPiece)

\* C12: while gameOver = 1 the piece, the board, the score and the fall period
\* stay as they are; only the session reset changes them.
C12_FrozenWhenOver ==
    [][(gameOver = 1 /\ ~RestartStep) =>
          /\ board' = board
          /\ currentPiece' = currentPiece
          /\ score' = score
          /\ speed' = speed
          /\ gameOver' = 1]_vars

\* the game is over on a board with locked cells, after a tick of this run
C12_Witness ==
    /\ gameOver = 1
    /\ pc = "over"
    /\ nTicks > 0
    /\ Occupied(board) # {}

AllRotationsFree(b, p) ==
    \A r \in 0..3 : ~Offending(b, [p EXCEPT !.rotation = r])

\* C14: four consecutive calls of rotate_piece on a piece whose four rotation
\* states are all free at its position bring back its rotation and position.
C14_FourRotations ==
    (pc = "rotate" /\ nInputs = 4 /\ AllRotationsFree(board, entry)) =>
        currentPiece = entry

\* a T piece next to locked cells is back at its entry placement after four calls
C14_Witness ==
    /\ pc = "rotate"
    /\ nInputs = 4
    /\ Occupied(board) # {}
    /\ entry.type = 5
    /\ AllRotationsFree(board, entry)
    /\ currentPiece = entry

\* C15: within a session the fall period never increases, and once it is at
\* or below 1000 no line-clear pass changes it.
C15_SpeedNeverIncreases ==
    [][~RestartStep =>
          /\ speed' <= speed
          /\ speed <= 1000 => speed' = speed]_vars

\* two four-line passes: the second found the fall period below the threshold
C15_Witness ==
    /\ pc = "pass"
    /\ nTicks = 2
    /\ linesCleared = 4
    /\ score = 1600
    /\ speed = 899999 - 800 * 400 * 4

LastIndex(S) == IF S = {} THEN -1 ELSE CHOOSE m \in S : \A k \in S : k <= m

RowsUnchanged(b1, b2, ys) == \A y \in ys, x \in Cols : b2[y][x] = b1[y][x]
ColsUnchanged(b1, b2, xs) == \A y \in Rows, x \in xs : b2[y][x] = b1[y][x]

\* C17: the pass hands apply_gravity the highest cleared row and the highest
\* cleared column, -1 for an axis without a cleared line, and a sweep leaves
\* the half of the board on the other side of the centre as it was.
C17_LastIndexSelectsGravity ==
    [][/\ pc = "check_lines" =>
            /\ lastClearedRow' =
                   LastIndex({y \in FullRows(board) : RowEmpty(board', y)})
            /\ lastClearedCol' =
                   LastIndex({x \in FullCols(board) : ColEmpty(board', x)})
            /\ (pc' = "gravity") <=> (lastClearedRow' # -1 \/ lastClearedCol' # -1)
       /\ pc = "gravity" =>
            /\ lastClearedRow' = lastClearedRow
            /\ lastClearedCol' = lastClearedCol
            /\ (lastClearedCol = -1 /\ lastClearedRow >= centerY) =>
                   RowsUnchanged(board, board', TopRows)
            /\ (lastClearedCol = -1 /\ lastClearedRow < centerY) =>
                   RowsUnchanged(board, board', BottomRows)
            /\ (lastClearedRow = -1 /\ lastClearedCol >= centerX) =>
                   ColsUnchanged(board, board', 0 .. (centerX - 1))
            /\ (lastClearedRow = -1 /\ lastClearedCol < centerX) =>
                   ColsUnchanged(board, board', centerX .. (BOARD_WIDTH - 1))]_vars

\* rows 8..11 were cleared, gravity ran for row 11 and has returned: a cell of
\* the upper half still has an empty cell above it
C17_Witness ==
    /\ pc = "score"
    /\ linesCleared = 4
    /\ lastClearedRow = centerY + 1
    /\ lastClearedCol = -1
    /\ RowEmpty(board, centerY - 2)
    /\ board[3][2] # BLACK
    /\ board[2][2] = BLACK
    /\ board[BOARD_HEIGHT - 1][2] # BLACK

\* C18: apply_gravity starts only in a pass that cleared a row or a column; a
\* pass that finds no complete row and no complete column leaves the board,
\* the score and the fall period as they were and goes on to the spawn.
C18_GravityOnlyAfterClear ==
    [][/\ (pc' = "gravity" /\ pc # "gravity") =>
            /\ pc = "check_lines"
            /\ linesCleared' >= 1
            /\ \/ \E y \in FullRows(board) : RowEmpty(board', y)
               \/ \E x \in FullCols(board) : ColEmpty(board', x)
       /\ (pc = "check_lines" /\ FullRows(board) = {} /\ FullCols(board) = {}) =>
            /\ pc' = "score"
            /\ linesCleared' = 0
            /\ board' = board /\ score' = score /\ speed' = speed
       /\ (pc = "score" /\ linesCleared = 0) =>
            /\ pc' = "spawn"
            /\ board' = board /\ score' = score /\ speed' = speed]_vars

\* a piece was locked without completing a line: the spawn is next
C18_Witness ==
    /\ pc = "spawn"
    /\ nTicks > 0
    /\ linesCleared = 0
    /\ changes = 0
    /\ FullRows(board) = {} /\ FullCols(board) = {}
    /\ \A c \in Footprint(currentPiece) : board[c[1]][c[2]] = currentPiece.type + 1

\* the rows the row sweeps write: y and its neighbour y - 1 or y + 1
GravityWriteRows ==
    UNION {{y, y - 1} : y \in 1 .. (centerY - 1)}
        \cup UNION {{y, y + 1} : y \in centerY .. (BOARD_HEIGHT - 2)}

\* the columns the column sweeps write: x and its neighbour x + 1 or x - 1
GravityWriteCols ==
    UNION {{x, x + 1} : x \in centerX .. (BOARD_WIDTH - 2)}
        \cup UNION {{x, x - 1} : x \in 1 .. (centerX - 1)}

\* C19: the board is a 20 x 20 array whose cells hold 0 or a colour tag in
\* 1..7; the cells lock_piece writes and the rows and columns the moves of
\* apply_gravity write are on the board.
C19_CellsAndWritesInRange ==
    /\ DOMAIN board = Rows
    /\ \A y \in Rows : DOMAIN board[y] = Cols
    /\ \A y \in Rows, x \in Cols : board[y][x] \in 0..7
    /\ pc = "lock" => Footprint(currentPiece) \subseteq Rows \X Cols
    /\ pc = "gravity" => GravityWriteRows \subseteq Rows /\ GravityWriteCols \subseteq Cols

\* gravity is about to run on a board that holds locked cells of this run
C19_Witness ==
    /\ pc = "gravity"
    /\ nTicks > 0
    /\ \E c \in Occupied(board) : board[c[1]][c[2]] \in 1..7
    /\ \E y \in Rows : RowEmpty(board, y)

\* no sweep of apply_gravity(row, col) would move a cell of b
Settled(b, row, col) ==
    /\ (row # -1 /\ row < centerY) =>
           \A y \in 1 .. (centerY - 1), x \in Cols :
               ~(b[y][x] # BLACK /\ b[y - 1][x] = BLACK)
    /\ (row >= centerY) =>
           \A y \in centerY .. (BOARD_HEIGHT - 2), x \in Cols :
               ~(b[y][x] # BLACK /\ b[y + 1][x] = BLACK)
    /\ (col >= centerX) =>
           \A x \in centerX .. (BOARD_WIDTH - 2), y \in Rows :
               ~(b[y][x] # BLACK /\ b[y][x + 1] = BLACK)
    /\ (col # -1 /\ col < centerX) =>
           \A x \in 1 .. (centerX - 1), y \in Rows :
               ~(b[y][x] # BLACK /\ b[y][x - 1] = BLACK)

\* the program is inside handle_tick_movement, after a rejected tick-move
InFlight == pc \in {"lock", "check_lines", "gravity", "score", "spawn"}

\* C20: in an iteration of the main loop the button is handled first, the
\* switches second and the tick-move last; after a rejected tick-move the
\* lock, the line-clear pass, gravity up to a sweep without moves and the
\* spawn follow one another, and no input or tick is handled in between.
C20_IterationOrder ==
    [][/\ (pc \in {"loop", "switches", "timer"} /\ lastButtonState' # lastButtonState)
             => (pc = "loop" /\ pc' = "switches")
       /\ (pc \in {"loop", "switches", "timer"}
             /\ currentPiece'.rotation # currentPiece.rotation)
             => (pc = "loop" /\ pc' = "switches")
       /\ (pc \in {"loop", "switches", "timer"} /\ lastSwitchState' # lastSwitchState)
             => (pc = "switches" /\ pc' = "timer")
       /\ (pc \in {"loop", "switches", "timer"}
             /\ currentPiece'.direction # currentPiece.direction)
             => (pc = "switches" /\ pc' = "timer")
       /\ (nTicks' = nTicks + 1) => (pc = "timer" /\ pc' \in {"loop", "lock"})
       /\ (pc = "loop" /\ nLoops' = nLoops + 1) => pc' = "switches"
       /\ pc = "switches" => pc' = "timer"
       /\ pc = "lock" => pc' = "check_lines"
       /\ pc = "check_lines" => pc' \in {"gravity", "score"}
       /\ pc = "gravity" =>
            \/ pc' = "gravity" /\ ~Settled(board, lastClearedRow, lastClearedCol)
            \/ pc' = "score" /\ Settled(board', lastClearedRow, lastClearedCol)
       /\ pc = "score" => pc' = "spawn"
       /\ (pc = "spawn" /\ nTicks > 0) => pc' \in {"loop", "over"}
       /\ InFlight =>
            /\ lastButtonState' = lastButtonState
            /\ lastSwitchState' = lastSwitchState
            /\ nTicks' = nTicks
            /\ nLoops' = nLoops
            /\ timeoutcount' = timeoutcount
       /\ (InFlight /\ pc # "spawn") => currentPiece' = currentPiece]_vars

\* a rejected tick-move ran through a line clear and gravity to the spawn,
\* and the next iteration has handled the button
C20_Witness ==
    /\ pc = "switches"
    /\ nLoops = 3
    /\ nTicks = 1
    /\ timeoutcount = 0
    /\ linesCleared > 0
    /\ lastClearedRow # -1
    /\ Settled(board, lastClearedRow, lastClearedCol)

\* the switch masks whose bit differs between two readings
ChangedMasks(cur, last) ==
    {m \in {1, 2, 4, 8} : ((cur \div m) % 2) # ((last \div m) % 2)}

\* the direction a change of switches asks for: right (0x1) before left (0x2)
\* before up (0x8) before down (0x4); none if no direction switch changed
Requested(cur, last, dir) ==
    LET c == ChangedMasks(cur, last)
    IN  IF 1 \in c THEN 3
        ELSE IF 2 \in c THEN 2
        ELSE IF 8 \in c THEN 1
        ELSE IF 4 \in c THEN 0
        ELSE dir

\* a reading of the switches that differs from the last one
SwitchStep == pc = "loop" /\ lastSwitchState' # lastSwitchState

\* C21: a change of the switches sets the direction to the requested one and
\* changes nothing else of the game; the placement is not validated and the
\* piece is not locked.
C21_DirectionChangeFrame ==
    [][SwitchStep =>
          /\ currentPiece' = [currentPiece EXCEPT !.direction =
                 Requested(lastSwitchState', lastSwitchState, currentPiece.direction)]
          /\ board' = board
          /\ score' = score
          /\ speed' = speed
          /\ gameOver' = gameOver
          /\ pc' = "loop"]_vars

\* the piece was turned towards cells it cannot move into and is still live
C21_Witness ==
    /\ pc = "loop"
    /\ nInputs = 1
    /\ nTicks = 0
    /\ lastSwitchState = 1
    /\ currentPiece.direction = 3
    /\ Offending(board, Translated(currentPiece))
    /\ ~Offending(board, currentPiece)

\* C22: whatever the random state, spawn_piece yields a kind in 0..6, a
\* direction in 0..3, rotation 0 at (8, 8); it sets gameOver exactly when that
\* placement collides and never changes the board.
C22_SpawnContract ==
    [][pc = "spawn" =>
          /\ currentPiece'.type \in 0..6
          /\ currentPiece'.direction \in 0..3
          /\ currentPiece'.rotation = 0
          /\ currentPiece'.x = 8
          /\ currentPiece'.y = 8
          /\ gameOver' = (IF Offending(board, currentPiece') THEN 1 ELSE gameOver)
          /\ board' = board]_vars

\* a Z piece was spawned from a random state with bit 31 set onto the cell at
\* its corner, and the game is over
C22_Witness ==
    /\ pc = "over"
    /\ gameOver = 1
    /\ board = OneCell(SpawnY, SpawnX)
    /\ currentPiece.type = 6
    /\ currentPiece.direction = 3
    /\ randState[1] >= 32768

\* C23: a spawn with the centre cell (row 9, column 9) occupied ends the
\* session whatever the kind drawn: every rotation-0 shape covers that cell.
C23_CentreCellEndsGame ==
    [][pc = "spawn" /\ board[9][9] # BLACK =>
          /\ gameOver' = 1
          /\ pc' = "over"
          /\ \A k \in 0..6 : <<9, 9>> \in Footprint([SpawnedPiece(randState) EXCEPT !.type = k])
      ]_vars

\* an I piece was spawned onto the occupied centre cell of an otherwise empty
\* board and the game is over
C23_Witness ==
    /\ pc = "over"
    /\ gameOver = 1
    /\ board = OneCell(9, 9)
    /\ currentPiece.type = 0
    /\ currentPiece.x = SpawnX

\* a tick-move whose new placement was accepted
AcceptedTick == pc = "loop" /\ nTicks' = nTicks + 1 /\ pc' = "loop"

\* a tick-move whose new placement was rejected: the piece is to be locked
RejectedTick == pc = "loop" /\ nTicks' = nTicks + 1 /\ pc' = "lock"

\* positions inside check_lines: the scans, apply_gravity, the score switch
InCheckLines == pc \in {"check_lines", "gravity", "score"}

\* C25: within a session score and fall period change only inside the
\* line-clear pass, the pass is entered only after the lock of a rejected
\* tick-move, and rotation, direction change, an accepted tick-move, the lock,
\* gravity and the spawn leave both as they were.
C25_ScoreFrame ==
    [][~RestartStep =>
          /\ (score' # score \/ speed' # speed) => InCheckLines
          /\ (pc' = "check_lines") => (pc = "lock")
          /\ (pc' = "lock") => (RejectedTick /\ Offending(board, Translated(currentPiece)))
          /\ (\/ RotateStep
              \/ SwitchStep
              \/ AcceptedTick
              \/ pc \in {"lock", "gravity", "spawn"})
             => (score' = score /\ speed' = speed)]_vars

\* a pass has scored one line, a piece was spawned and has taken an accepted
\* tick-move and a direction change since
C25_Witness ==
    /\ pc = "loop"
    /\ score = 100
    /\ speed = startSpeed - 100 * SpeedFactor
    /\ nInputs = 1
    /\ lastSwitchState # 0
    /\ nTicks = 3
    /\ <<currentPiece.x, currentPiece.y>> # <<SpawnX, SpawnY>>

\* the spawn_piece call of main: no tick-move has been made since game_start
FirstSpawn == pc = "spawn" /\ nTicks = 0

\* C26: the reset at game_start gives score 0, fall period 899999, gameOver 0
\* and an empty board, and the spawn that follows it leaves all of these and
\* places a piece that does not collide.
C26_ResetIsFresh ==
    [][/\ RestartStep =>
            /\ score' = 0
            /\ speed' = 899999
            /\ gameOver' = 0
            /\ \A y \in Rows, x \in Cols : board'[y][x] = BLACK
            /\ FirstSpawn'
       /\ FirstSpawn =>
            /\ score' = 0
            /\ speed' = 899999
            /\ gameOver' = 0
            /\ \A y \in Rows, x \in Cols : board'[y][x] = BLACK
            /\ ~Offending(board', currentPiece')
            /\ pc' = "loop"]_vars

\* a session that had scored and ended was reset and has its first piece
C26_Witness ==
    /\ pc = "loop"
    /\ nTicks = 0
    /\ linesCleared > 0
    /\ score = 0
    /\ speed = startSpeed
    /\ gameOver = 0
    /\ board = EmptyBoard

\* the number of cells of board b that carry colour tag t
TagCount(b, t) == Cardinality({c \in Rows \X Cols : b[c[1]][c[2]] = t})

\* C30: a gravity sweep neither creates nor destroys nor overwrites a cell:
\* the number of cells of each colour tag is the same before and after it.
C30_GravityKeepsCells ==
    [][pc = "gravity" =>
          \A t \in 1..7 : TagCount(board', t) = TagCount(board, t)]_vars

\* gravity after a row and a column clear has ended with two cells of different
\* colour side by side in the corner: the second stopped against the first
C30_Witness ==
    /\ pc = "score"
    /\ lastClearedRow = centerY - 1
    /\ lastClearedCol = centerX - 1
    /\ board[0][0] # BLACK
    /\ board[0][1] # BLACK
    /\ board[0][0] # board[0][1]

\* the lowest board row a placement occupies
Lowest(p) == CHOOSE m \in FootRows(p) : \A r \in FootRows(p) : r <= m

\* a piece spawned with direction down on the empty board, not rotated or
\* turned since, at a main-loop boundary
FallingOnEmpty ==
    /\ pc = "loop"
    /\ board = EmptyBoard
    /\ currentPiece.direction = DIR_DOWN
    /\ currentPiece.rotation = 0
    /\ currentPiece.x = SpawnX
    /\ currentPiece.y >= SpawnY

\* C24: on the empty board a piece falling down moves one row per tick-move
\* while its lowest cell is above row 19; the tick-move with the lowest cell
\* in row 19 leaves it in place and locks exactly its cells, and the pass and
\* the spawn of a new piece at (8, 8) follow within that same tick-move.
C24_FallToBottom ==
    [][/\ FallingOnEmpty =>
            /\ nTicks' = nTicks + 1
            /\ board' = board
            /\ IF Lowest(currentPiece) < BOARD_HEIGHT - 1
               THEN /\ currentPiece' = [currentPiece EXCEPT !.y = currentPiece.y + 1]
                    /\ pc' = "loop"
               ELSE /\ currentPiece' = currentPiece
                    /\ pc' = "lock"
       /\ (pc = "lock" /\ board = EmptyBoard /\ currentPiece.direction = DIR_DOWN) =>
            /\ Lowest(currentPiece) = BOARD_HEIGHT - 1
            /\ Occupied(board') = Footprint(currentPiece)
            /\ pc' = "check_lines"
       /\ (pc = "check_lines" /\ Occupied(board) = Footprint(currentPiece)) =>
            /\ board' = board
            /\ pc' = "score"
       /\ (pc = "score" /\ Occupied(board) = Footprint(currentPiece)) =>
            /\ board' = board
            /\ pc' = "spawn"
       /\ (pc = "spawn" /\ Occupied(board) = Footprint(currentPiece)) =>
            /\ board' = board
            /\ currentPiece'.x = SpawnX /\ currentPiece'.y = SpawnY
            /\ currentPiece'.rotation = 0
            /\ pc' = "loop"
       /\ InFlight => nTicks' = nTicks]_vars

\* the I piece has fallen ten rows, was locked in row 19 by the eleventh
\* tick-move, and the next piece stands at the spawn point
C24_Witness ==
    /\ pc = "loop"
    /\ nTicks = 11
    /\ Occupied(board) = {<<19, 8>>, <<19, 9>>, <<19, 10>>, <<19, 11>>}
    /\ board[19][8] = 1
    /\ currentPiece.x = SpawnX
    /\ currentPiece.y = SpawnY
    /\ currentPiece.rotation = 0

\* no column has an empty cell between two occupied cells above the centre
NoInternalGaps(b) ==
    \A x \in Cols : \A y1 \in TopRows, y \in TopRows, y2 \in TopRows :
        (y1 < y /\ y < y2 /\ b[y1][x] # BLACK /\ b[y2][x] # BLACK) => b[y][x] # BLACK

\* C27 as stated: the pass on a board that is full but for one empty row above
\* the centre detects cleared rows, ends with score 100, and leaves no
\* internal gap above the centre.
C27_GapPassScoresSingle ==
    pc = "spawn" =>
        /\ lastClearedRow # -1
        /\ score = 100
        /\ NoInternalGaps(board)

ColTagCount(b, x, t) == Cardinality({y \in Rows : b[y][x] = t})
RowTagCount(b, y, t) == Cardinality({x \in Cols : b[y][x] = t})

\* no cell has left its column; no cell has left its row
ColumnsKept(b1, b2) == \A x \in Cols, t \in 1..7 : ColTagCount(b2, x, t) = ColTagCount(b1, x, t)
RowsKept(b1, b2) == \A y \in Rows, t \in 1..7 : RowTagCount(b2, y, t) = RowTagCount(b1, y, t)

LeftCols == 0 .. (centerX - 1)
RightCols == centerX .. (BOARD_WIDTH - 1)

\* C31: a gravity sweep touches only the half the cleared index selects. Row
\* cleared above the centre only: rows 10..19 unchanged, cells stay in their
\* columns; row at or below the centre only: rows 0..9 unchanged, cells stay in
\* their columns; column at or right of the centre only: columns 0..9
\* unchanged, cells stay in their rows; column left of the centre only:
\* columns 10..19 unchanged, cells stay in their rows.
C31_GravityHalf ==
    [][pc = "gravity" =>
          /\ (lastClearedCol = -1 /\ lastClearedRow # -1 /\ lastClearedRow < centerY) =>
                (RowsUnchanged(board, board', BottomRows) /\ ColumnsKept(board, board'))
          /\ (lastClearedCol = -1 /\ lastClearedRow >= centerY) =>
                (RowsUnchanged(board, board', TopRows) /\ ColumnsKept(board, board'))
          /\ (lastClearedRow = -1 /\ lastClearedCol >= centerX) =>
                (ColsUnchanged(board, board', LeftCols) /\ RowsKept(board, board'))
          /\ (lastClearedRow = -1 /\ lastClearedCol # -1 /\ lastClearedCol < centerX) =>
                (ColsUnchanged(board, board', RightCols) /\ RowsKept(board, board'))]_vars

\* gravity after a row clear above the centre has ended: a cell has reached the
\* top row of its column and a cell below the centre is where it was
C31_Witness ==
    /\ pc = "score"
    /\ lastClearedRow = centerY - 1
    /\ lastClearedCol = -1
    /\ board[0][2] # BLACK
    /\ board[17][9] # BLACK
    /\ Cardinality(Occupied(board)) = 2

\* C32: without a direction change a piece is locked by the 20th tick-move
\* after its spawn at the latest, whatever the board and the rotations in
\* between: it is not live after 20 tick-moves, and the tick-move that locks
\* it is at most the 20th.
C32_LockedWithinTwenty ==
    /\ pc = "loop" => nTicks < 20
    /\ pc = "lock" => nTicks <= 20

\* a piece moving left was rotated on its way and is locked by its eleventh
\* tick-move, ten columns from the spawn point
C32_Witness ==
    /\ pc = "lock"
    /\ nTicks = 11
    /\ currentPiece.direction = DIR_LEFT
    /\ currentPiece.rotation = 1
    /\ currentPiece.x = SpawnX - 10

\* C33 as stated, for one piece: with tick-moves scheduled fairly, a live
\* piece is eventually locked whatever the rotations and direction changes.
C33_EveryPieceLocked == (pc = "loop") ~> (pc = "lock")

\* C33, amended: with tick-moves scheduled fairly, a live piece is eventually
\* locked or its direction is changed, whatever the rotations.
C33_LockedUnlessTurned ==
    \A d \in 0..3 :
        (pc = "loop" /\ currentPiece.direction = d)
            ~> (pc = "lock" \/ currentPiece.direction # d)

\* a piece that had moved down was turned left, was rotated, and is locked at
\* the left wall
C33_Witness ==
    /\ pc = "lock"
    /\ currentPiece.direction = DIR_LEFT
    /\ currentPiece.y > SpawnY
    /\ currentPiece.rotation = 1
    /\ lastSwitchState = SWITCH_LEFT

-----------------------------------------------------------------------------
(* The score over a session *)

\* C34: the score is never negative, is always a multiple of 100, and no step
\* other than the reset of a session makes it smaller.
C34_ScoreMonotone ==
    [][/\ score >= 0 /\ score % SCORE_SINGLE = 0
       /\ score' >= 0 /\ score' % SCORE_SINGLE = 0
       /\ ~RestartStep => score' >= score]_vars

\* a pass has added to a score that was already positive
C34_Witness ==
    /\ pc = "spawn"
    /\ linesCleared > 0
    /\ score > ScoreFor(linesCleared)

-----------------------------------------------------------------------------
(* The pace of the tick-moves *)

\* a step that makes a tick-move
TickMoveStep == nTicks' = nTicks + 1

\* C35: a tick-move is made at the 20th timer expiry since the last one and
\* at no earlier expiry, and no 21st expiry passes without a tick-move,
\* however the runs of handle_interrupt fall between the steps of main.
C35_TickEveryTwentieth ==
    [][/\ TickMoveStep => nExpired = TicksPerMove
       /\ nExpired' <= TicksPerMove]_vars

-----------------------------------------------------------------------------
(* The rotation button *)

\* the button is read as pressed after it was last read as released
RisingEdge == lastButtonState = 0 /\ lastButtonState' = 1

\* C36: handle_input calls rotate_piece exactly in the iterations that read
\* the button as pressed after having read it as released: an iteration that
\* reads it as still pressed, or as released, leaves the piece as it is, and
\* the rotations made are as many as the rising edges seen.
C36_RotateOncePerEdge ==
    [][/\ RisingEdge => currentPiece' = rotate_piece(board, currentPiece)
       /\ ~RisingEdge => currentPiece' = currentPiece
       /\ currentPiece'.rotation = ((nInputs' + 1) \div 2) % 4]_vars

\* pressed, held for an iteration, released, pressed again and held: two
\* rotations in five iterations
C36_Witness ==
    /\ nLoops = MaxPresses
    /\ nInputs = 3
    /\ lastButtonState = 1
    /\ currentPiece.rotation = 2

============================================================================
